---- MODULE Spec2Model ----
(***************************************************************************)
(* A model of jedi/api/project.py: the Project descriptor (constructor,    *)
(* load, save), the synthesis of the sys path (_get_sys_path), the root    *)
(* discovery (get_default_project) and the three-phase project search      *)
(* (_search_func under _try_to_skip_duplicates).                           *)
(*                                                                         *)
(* Python values are represented as follows.                               *)
(*   str            a sequence of one-character strings, <<"/", "p">>      *)
(*   pathlib.Path   a record [abs, parts]: whether it has a root, and its  *)
(*                  name components (each a str)                           *)
(*   None / a value the empty sequence / a one-element sequence            *)
(*   a path argument [type, chars]: type "str" is the str chars, type      *)
(*                  "Path" is the object Path(chars), type "None" is None  *)
(***************************************************************************)
EXTENDS Naturals, Sequences, FiniteSets

VARIABLES
    \* get_default_project
    path,                \* the argument: None, a str or a Path object
    dirs,                \* chain([check], check.parents), the directories walked
    fs,                  \* what the file system holds at each directory of the walk
    i,                   \* the position of the for loop in the walk
    probable_path,       \* the local variable: None or a directory
    first_no_init_file,  \* the local variable: None or a directory
    project,             \* None, or the descriptor returned
    dpc,                 \* "loop", "returned" or "raised"
    via,                 \* the return statement or the exception that ended the call
    \* _get_sys_path
    self,                \* the descriptor
    inference_state,     \* the resolution context and what its collaborators answer
    add_parent_paths,    \* the keyword argument
    add_init_paths,      \* the keyword argument
    sys_path_result,     \* None, or the list returned
    \* _search_func under _try_to_skip_duplicates
    query,               \* wanted_type and wanted_names of the split string, and complete
    ios,                 \* the (folder_io, file_io) pairs the folder walk has yielded
    file_ios,            \* the local list
    phase,               \* 1, 2, 3: the block of _search_func running; 4: exhausted
    in_call,             \* "no", or of the running search_in_module call "module"
                         \* (of a module under its own name) or "names"
    scan_pos,            \* the file of file_ios the content scanner has come to
    pending,             \* what a call of kind "module" has yet to yield
    raw,                 \* every definition _search_func has yielded, in order
    out,                 \* every definition the wrapper has yielded, in order
    found_tree_nodes,    \* the wrapper's list
    found_modules,       \* the wrapper's list
    calls,               \* the calls made to the collaborators, in order
    \* Project.save and Project.load
    stored,              \* None, or what .jedi/project.json of a folder holds
    loaded               \* None, or how a call of load ended

discVars == <<path, dirs, fs, i, probable_path, first_no_init_file, project, dpc, via>>
sysVars == <<self, inference_state, add_parent_paths, add_init_paths, sys_path_result>>
searchVars == <<query, ios, file_ios, phase, in_call, scan_pos, pending, raw, out,
                found_tree_nodes, found_modules, calls>>
storeVars == <<stored, loaded>>
vars == <<discVars, sysVars, searchVars, storeVars>>

\* ---------------------------------------------------------------- bounds
\* The deepest start path of a root discovery (the number of components
\* of its absolute form).
MaxDepth == 2
\* The deepest folder of a script path.
MaxScriptDepth == 3
\* The longest list of paths given as sys_path, as added_sys_path or by
\* the environment.
MaxList == 2
\* The longest dotted name chain of a search string.
MaxChain == 2
\* The most folders and files the folder walk yields.
MaxEntries == 2
\* The most definitions _search_func yields in one search.
MaxRaw == 3

\* ------------------------------------------------------------- pathlib
None == <<>>
Some(v) == <<v>>

Range(q) == {q[k] : k \in 1..Len(q)}

RECURSIVE SeqsUpTo(_, _)
\* The sequences over S of length n or less.
SeqsUpTo(S, n) ==
    IF n = 0 THEN {<<>>}
    ELSE LET shorter == SeqsUpTo(S, n - 1)
         IN  shorter \cup {Append(q, x) : q \in shorter, x \in S}

Slash == "/"
Dot == "."

\* The process's working directory, Path.cwd(), as components.
Cwd == << <<"w">> >>

RECURSIVE Join(_)
\* "/".join(parts)
Join(parts) ==
    IF parts = <<>> THEN <<>>
    ELSE IF Len(parts) = 1 THEN parts[1]
    ELSE parts[1] \o <<Slash>> \o Join(Tail(parts))

\* str(path): the components joined by "/", after the root if there is
\* one; the relative path without components is ".".
StrOf(p) ==
    IF p.abs THEN <<Slash>> \o Join(p.parts)
    ELSE IF p.parts = <<>> THEN <<Dot>>
    ELSE Join(p.parts)

RECURSIVE SplitFrom(_, _, _)
\* The components of s from position k on, cur being the component read
\* so far: empty components and "." components are dropped, as pathlib
\* drops them.
SplitFrom(s, k, cur) ==
    LET keep == IF cur = <<>> \/ cur = <<Dot>> THEN <<>> ELSE <<cur>>
    IN  IF k > Len(s) THEN keep
        ELSE IF s[k] = Slash THEN keep \o SplitFrom(s, k + 1, <<>>)
        ELSE SplitFrom(s, k + 1, Append(cur, s[k]))

\* Path(s) for a str s (one that does not start with exactly two slashes).
PathOf(s) ==
    [abs |-> s # <<>> /\ s[1] = Slash, parts |-> SplitFrom(s, 1, <<>>)]

\* path.absolute(): a relative path is put under the working directory.
Absolute(p) ==
    IF p.abs THEN p ELSE [abs |-> TRUE, parts |-> Cwd \o p.parts]

\* path.parents: the logical ancestors, the nearest first.
Parents(p) ==
    [k \in 1..Len(p.parts) |->
        [abs |-> p.abs, parts |-> SubSeq(p.parts, 1, Len(p.parts) - k)]]

\* path.parent
Parent(p) ==
    IF p.parts = <<>> THEN p ELSE Parents(p)[1]

\* path.joinpath(name)
JoinPath(p, name) == [abs |-> p.abs, parts |-> Append(p.parts, name)]

\* ----------------------------------------------------------- Project
_SERIALIZER_VERSION == 1

\* Project.__init__: a str path is made absolute, a Path object is kept
\* as it is; the sys path entries are mapped to str (they are str here).
\* environment is the memoized _environment (a class attribute, None).
ProjectNew(arg, environment_path, load_unsafe_extensions, sys_path, added_sys_path, smart_sys_path) ==
    [path |-> IF arg.type = "str" THEN Absolute(PathOf(arg.chars))
              ELSE PathOf(arg.chars),
     environment_path |-> environment_path,
     sys_path |-> sys_path,
     smart_sys_path |-> smart_sys_path,
     load_unsafe_extensions |-> load_unsafe_extensions,
     django |-> FALSE,
     added_sys_path |-> added_sys_path,
     environment |-> None]

\* Project(path) with the defaults of the keyword arguments.
ProjectDefault(arg) == ProjectNew(arg, None, FALSE, None, <<>>, TRUE)

\* A Path object handed on as an argument.
AsPathArg(p) == [type |-> "Path", chars |-> StrOf(p)]
AsStrArg(s) == [type |-> "str", chars |-> s]

\* Project.save: the record written to .jedi/project.json. _environment
\* and _django are popped, the leading underscores stripped and the path
\* stored as a str.
SavedRecord(proj) ==
    [version |-> _SERIALIZER_VERSION,
     data |-> [path |-> StrOf(proj.path),
               environment_path |-> proj.environment_path,
               sys_path |-> proj.sys_path,
               smart_sys_path |-> proj.smart_sys_path,
               load_unsafe_extensions |-> proj.load_unsafe_extensions,
               added_sys_path |-> proj.added_sys_path]]

\* A variant that builds the descriptor whatever the version is.
LoadRecord_AnyVersion(rec) ==
    [outcome |-> "return",
     project |-> Some(ProjectNew(AsStrArg(rec.data.path),
                                 rec.data.environment_path,
                                 rec.data.load_unsafe_extensions,
                                 rec.data.sys_path,
                                 rec.data.added_sys_path,
                                 rec.data.smart_sys_path))]

\* The part of Project.load after the file is read: version 1 builds the
\* descriptor from the stored fields, any other version raises.
LoadRecord(rec) ==
    IF rec.version = 1
    THEN [outcome |-> "return",
          project |-> Some(ProjectNew(AsStrArg(rec.data.path),
                                     rec.data.environment_path,
                                     rec.data.load_unsafe_extensions,
                                     rec.data.sys_path,
                                     rec.data.added_sys_path,
                                     rec.data.smart_sys_path))]
    ELSE [outcome |-> "WrongVersion", project |-> None]

\* ------------------------------------------------------ _get_sys_path
RECURSIVE RemoveFirst(_, _)
\* list.remove(x) on a copy: the first x is removed, if there is one.
RemoveFirst(q, x) ==
    IF q = <<>> THEN <<>>
    ELSE IF q[1] = x THEN Tail(q)
    ELSE <<q[1]>> \o RemoveFirst(Tail(q), x)

\* _get_base_sys_path: the environment's sys path without its first ''.
_get_base_sys_path(state) == RemoveFirst(state.env_sys_path, <<>>)

\* A variant that keeps the last occurrence of each path.
RECURSIVE RemoveDuplicates_KeepLast(_, _)
RemoveDuplicates_KeepLast(q, used) ==
    IF q = <<>> THEN <<>>
    ELSE IF q[1] \in Range(Tail(q)) THEN RemoveDuplicates_KeepLast(Tail(q), used)
    ELSE <<q[1]>> \o RemoveDuplicates_KeepLast(Tail(q), used)

RECURSIVE RemoveDuplicates(_, _)
\* _remove_duplicates_from_path, from the set used on: a path in used is
\* passed over, another one is added to used and yielded.
RemoveDuplicates(q, used) ==
    IF q = <<>> THEN <<>>
    ELSE IF q[1] \in used THEN RemoveDuplicates(Tail(q), used)
    ELSE <<q[1]>> \o RemoveDuplicates(Tail(q), used \cup {q[1]})

\* reversed(q)
Reversed(q) == [k \in 1..Len(q) |-> q[Len(q) + 1 - k]]

RECURSIVE TraversedFrom_NoBound(_, _, _, _, _)
\* A variant that walks on up to the file system root.
TraversedFrom_NoBound(root, parents, inits, addInit, k) ==
    IF k > Len(parents) THEN <<>>
    ELSE IF ~addInit /\ parents[k] \in inits
         THEN TraversedFrom_NoBound(root, parents, inits, addInit, k + 1)
    ELSE <<StrOf(parents[k])>> \o TraversedFrom_NoBound(root, parents, inits, addInit, k + 1)

RECURSIVE TraversedFrom(_, _, _, _, _)
\* The loop of lines 221-229 from the k-th parent on: it breaks at the
\* root and above it, and passes over a directory with __init__.py unless
\* add_init_paths is set.
TraversedFrom(root, parents, inits, addInit, k) ==
    IF k > Len(parents) THEN <<>>
    ELSE IF parents[k] = root \/ root \notin Range(Parents(parents[k])) THEN <<>>
    ELSE IF ~addInit /\ parents[k] \in inits
         THEN TraversedFrom(root, parents, inits, addInit, k + 1)
    ELSE <<StrOf(parents[k])>> \o TraversedFrom(root, parents, inits, addInit, k + 1)

\* traversed after the loop, for a script path that is not None.
Traversed(proj, state, addInit) ==
    TraversedFrom(proj.path, Parents(state.script_path[1]), state.inits, addInit, 1)

\* A variant that appends the collected directories as they were found.
AncestorSuffix_Unreversed(proj, state, addInit) == Traversed(proj, state, addInit)

\* Line 234: what the ancestor walk adds to suffixed.
AncestorSuffix(proj, state, addInit) == Reversed(Traversed(proj, state, addInit))

\* A variant that puts the root path first without smart_sys_path too.
Prefixed_RootAlways(proj) ==
    <<StrOf(proj.path)>> \o (IF proj.django THEN <<StrOf(proj.path)>> ELSE <<>>)

\* prefixed at line 239.
Prefixed(proj) ==
    (IF proj.smart_sys_path THEN <<StrOf(proj.path)>> ELSE <<>>)
    \o (IF proj.django THEN <<StrOf(proj.path)>> ELSE <<>>)

\* sys_path at line 239.
BaseList(proj, state) ==
    IF proj.sys_path = None THEN _get_base_sys_path(state) ELSE proj.sys_path[1]

\* suffixed at line 239.
Suffixed(proj, state, addParent, addInit) ==
    proj.added_sys_path
    \o (IF proj.smart_sys_path /\ state.script_path # None
        THEN state.buildout
             \o (IF addParent THEN AncestorSuffix(proj, state, addInit) ELSE <<>>)
        ELSE <<>>)

\* path at line 239.
Concatenation(proj, state, addParent, addInit) ==
    Prefixed(proj) \o BaseList(proj, state) \o Suffixed(proj, state, addParent, addInit)

\* Project._get_sys_path
_get_sys_path(proj, state, addParent, addInit) ==
    RemoveDuplicates(Concatenation(proj, state, addParent, addInit), {})

\* The path strings that turn up in the lists.
ListEntries == {<<Slash, "p">>, <<Slash, "p", Slash, "a">>, <<Slash, "q">>}

\* The folders of scripts: those down the chain /p/a/a..., and /q.
RECURSIVE ChainFolder(_)
ChainFolder(n) ==
    IF n = 0 THEN <<>>
    ELSE IF n = 1 THEN << <<"p">> >>
    ELSE Append(ChainFolder(n - 1), <<"a">>)

ScriptFolders ==
    {[abs |-> TRUE, parts |-> ChainFolder(n)] : n \in 1..MaxScriptDepth}
    \cup {[abs |-> TRUE, parts |-> << <<"q">> >>]}

\* inference_state.script_path: None, or an absolute path of a file.
ScriptPaths == {None} \cup {Some(JoinPath(f, <<"s">>)) : f \in ScriptFolders}

\* The descriptors: those of the constructor and of load (a str path
\* there), with or without sys_path and whatever added_sys_path and
\* smart_sys_path, and the framework-flagged one of get_default_project.
RootArgs ==
    {AsStrArg(<<Slash, "p">>), AsStrArg(<<Slash, "p", Slash>>),
     AsPathArg([abs |-> TRUE, parts |-> << <<"p">> >>]),
     AsPathArg([abs |-> FALSE, parts |-> << <<"p">> >>])}

Descriptors ==
    {ProjectNew(arg, None, FALSE, sp, added, smart) :
        arg \in RootArgs,
        sp \in {None} \cup {Some(q) : q \in SeqsUpTo(ListEntries, MaxList)},
        added \in SeqsUpTo(ListEntries, MaxList),
        smart \in BOOLEAN}
    \cup {[ProjectDefault(AsPathArg([abs |-> TRUE, parts |-> << <<"p">> >>]))
             EXCEPT !.django = TRUE]}

\* The resolution contexts: the script path, the sys path the environment
\* reports (asked for only without sys_path), the paths
\* discover_buildout_paths finds for the script, and the directories that
\* hold a file __init__.py.
States(proj) ==
    [script_path : ScriptPaths,
     env_sys_path : IF proj.sys_path = None
                    THEN SeqsUpTo(ListEntries \cup {<<>>}, MaxList) ELSE {<<>>},
     buildout : {<<>>} \cup {<<e>> : e \in ListEntries},
     inits : SUBSET {f \in ScriptFolders : Len(f.parts) > 1}]

\* No call of get_default_project is under way.
DiscoverIdle ==
    /\ path = [type |-> "None", chars |-> <<>>]
    /\ dirs = <<>>
    /\ fs = <<>>
    /\ i = 1
    /\ probable_path = None
    /\ first_no_init_file = None
    /\ project = None
    /\ dpc = "idle"
    /\ via = ""

\* No call of _get_sys_path is under way.
SysPathIdle ==
    /\ self = [path |-> [abs |-> TRUE, parts |-> <<>>]]
    /\ inference_state = [script_path |-> None]
    /\ add_parent_paths = TRUE
    /\ add_init_paths = FALSE
    /\ sys_path_result = None

\* Nothing is stored and no load was called.
StoreIdle ==
    /\ stored = None
    /\ loaded = None

\* No search is under way.
SearchIdle ==
    /\ query = [wanted_type |-> "", wanted_names |-> <<>>, complete |-> FALSE]
    /\ ios = <<>>
    /\ file_ios = <<>>
    /\ phase = 4
    /\ in_call = "no"
    /\ scan_pos = 0
    /\ pending = <<>>
    /\ raw = <<>>
    /\ out = <<>>
    /\ found_tree_nodes = <<>>
    /\ found_modules = <<>>
    /\ calls = <<>>

SysPathInit ==
    /\ DiscoverIdle
    /\ SearchIdle
    /\ StoreIdle
    /\ self \in Descriptors
    /\ inference_state \in States(self)
    /\ add_parent_paths \in BOOLEAN
    /\ add_init_paths \in BOOLEAN
    /\ add_parent_paths \/ ~add_init_paths
    /\ sys_path_result = None

\* One call of _get_sys_path.
GetSysPath ==
    /\ sys_path_result = None
    /\ sys_path_result' =
          Some(_get_sys_path(self, inference_state, add_parent_paths, add_init_paths))
    /\ UNCHANGED <<self, inference_state, add_parent_paths, add_init_paths, discVars,
                   searchVars, storeVars>>

SysPathNext == GetSysPath

SpecSysPath == SysPathInit /\ [][SysPathNext]_vars

\* ------------------------------------------------------ save and load
\* _CONFIG_FOLDER
ConfigFolder == <<Dot, "j", "e", "d", "i">>

\* Project._get_json_path
_get_json_path(base_path) ==
    JoinPath(JoinPath(base_path, ConfigFolder),
             <<"p", "r", "o", "j", "e", "c", "t", Dot, "j", "s", "o", "n">>)

\* The file a path names when it is opened.
Opened(p) == Absolute(p)

\* The versions of the records found on disk.
StoredVersions == {0, 1, 2}

\* Project.load(path), stored being the one project.json there is: the
\* file is opened and read, and the record is turned into a descriptor.
LoadFrom(arg, file) ==
    IF file = None \/ file[1].path # Opened(_get_json_path(PathOf(arg.chars)))
    THEN [outcome |-> "FileNotFoundError", project |-> None]
    ELSE LoadRecord(file[1].content)

\* The arguments that name the root of a descriptor: its path, or the
\* str of it.
RootOf(proj) == {AsPathArg(proj.path), AsStrArg(StrOf(proj.path))}

StoreInit ==
    /\ DiscoverIdle
    /\ SearchIdle
    /\ self \in Descriptors
    /\ inference_state = [script_path |-> None]
    /\ add_parent_paths = TRUE
    /\ add_init_paths = FALSE
    /\ sys_path_result = None
    /\ stored \in {None} \cup
          {Some([path |-> Opened(_get_json_path(self.path)),
                 content |-> [SavedRecord(ProjectDefault(AsPathArg(Absolute(self.path))))
                                EXCEPT !.version = v]]) : v \in StoredVersions}
    /\ loaded = None

\* Project.get_environment: the environment is created once and kept.
GetEnvironment ==
    /\ self.environment = None
    /\ self' = [self EXCEPT !.environment = Some("environment")]
    /\ UNCHANGED <<inference_state, add_parent_paths, add_init_paths, sys_path_result,
                   discVars, searchVars, storeVars>>

\* Project.save: the folder .jedi is made and project.json written over.
SaveProject ==
    /\ loaded = None
    /\ stored' = Some([path |-> Opened(_get_json_path(self.path)),
                       content |-> SavedRecord(self)])
    /\ UNCHANGED <<loaded, discVars, sysVars, searchVars>>

\* Project.load with the root of the descriptor.
LoadProject ==
    /\ loaded = None
    /\ \E arg \in RootOf(self) : loaded' = LoadFrom(arg, stored)
    /\ UNCHANGED <<stored, discVars, sysVars, searchVars>>

StoreNext ==
    \/ GetEnvironment
    \/ SaveProject
    \/ LoadProject

SpecStore == StoreInit /\ [][StoreNext]_vars

\* ------------------------------------------------- get_default_project
\* What the walk finds at a directory.
\*   kind    "dir", "file" (a regular file), "absent", "underfile" (a
\*           path below a regular file), or "denied" (a directory that
\*           may not be searched, or a path below one: stat and open of
\*           what it holds fail with EACCES)
\*   config  of .jedi/project.json: "none", "v1" (a record of version 1),
\*           "v2" (a record of another version), "notadir" (.jedi is a
\*           regular file), "unreadable" (the file may not be read)
\*   init    __init__.py exists
\*   django  manage.py holds DJANGO_SETTINGS_MODULE
\*   marker  one of _CONTAINS_POTENTIAL_PROJECT exists
NoEntry(kind) ==
    [kind |-> kind, config |-> "none", init |-> FALSE, django |-> FALSE, marker |-> FALSE]

DirEntries ==
    [kind : {"dir"}, config : {"none", "v1", "v2", "notadir", "unreadable"},
     init : BOOLEAN, django : BOOLEAN, marker : BOOLEAN]

\* The entries that can sit right below an entry of kind above.
EntriesBelow(above) ==
    IF above = "dir"
    THEN DirEntries \cup {NoEntry("file"), NoEntry("absent"), NoEntry("denied")}
    ELSE IF above = "absent" THEN {NoEntry("absent")}
    ELSE IF above = "denied" THEN {NoEntry("denied")}
    ELSE {NoEntry("underfile")}

\* The file systems along a walk of n directories, the last one being the
\* root directory, which exists.
WalkFileSystems(n) ==
    {f \in [1..n -> DirEntries \cup {NoEntry("file"), NoEntry("absent"),
                                     NoEntry("underfile"), NoEntry("denied")}] :
        /\ f[n].kind = "dir"
        /\ \A k \in 1..(n - 1) : f[k] \in EntriesBelow(f[k + 1].kind)}

\* Names of directories of start paths.
StartNames == {<<"a">>}

\* The arguments of get_default_project: None, or a str or a Path object,
\* absolute or relative, whose absolute form is MaxDepth deep or less.
StartArgs ==
    {[type |-> "None", chars |-> <<>>]} \cup
    {arg \in [type : {"str", "Path"},
              chars : {StrOf([abs |-> a, parts |-> q]) :
                          a \in BOOLEAN, q \in SeqsUpTo(StartNames, MaxDepth)}] :
        Len(Absolute(PathOf(arg.chars)).parts) <= MaxDepth}

\* path after lines 403-406: a Path object.
StartPath(arg) ==
    IF arg.type = "None" THEN [abs |-> TRUE, parts |-> Cwd]
    ELSE PathOf(arg.chars)

\* check = path.absolute()
Check(arg) == Absolute(StartPath(arg))

\* chain([check], check.parents)
Dirs(arg) == <<Check(arg)>> \o Parents(Check(arg))

\* The record a version-1 project.json of directory dir holds: the one
\* Project(dir).save() writes.
StoredAt(dir) == SavedRecord(ProjectDefault(AsPathArg(dir)))

\* Project.load(dir) as the walk sees it: the exception raised by open,
\* or the outcome of reading the record.
Load(dir, entry) ==
    IF entry.kind \in {"file", "underfile"} \/ entry.config = "notadir"
    THEN [outcome |-> "NotADirectoryError", project |-> None]
    ELSE IF entry.kind = "denied" \/ entry.config = "unreadable"
    THEN [outcome |-> "PermissionError", project |-> None]
    ELSE IF entry.kind = "absent" \/ entry.config = "none"
    THEN [outcome |-> "FileNotFoundError", project |-> None]
    ELSE IF entry.config = "v1" THEN LoadRecord(StoredAt(dir))
    ELSE LoadRecord([StoredAt(dir) EXCEPT !.version = 2])

\* Lines 414-415: the exceptions of Project.load(dir) that are passed.
LoadPasses(dir, entry) ==
    Load(dir, entry).outcome \in {"FileNotFoundError", "IsADirectoryError", "PermissionError"}

\* Path.exists() of dir/__init__.py where dir may not be searched or
\* lies below such a directory: stat fails with EACCES, which pathlib raises again as
\* PermissionError (it passes over ENOENT, ENOTDIR, EBADF and ELOOP only).
StatRaises(entry) == entry.kind = "denied"

\* dir.joinpath('__init__.py').exists()
HasInit(entry) == entry.kind = "dir" /\ entry.init

\* dir.is_file()
IsFile(entry) == entry.kind = "file"

\* _is_django_path(dir)
_is_django_path(entry) == entry.kind = "dir" /\ entry.django

\* _is_potential_project(dir)
_is_potential_project(entry) == entry.kind = "dir" /\ entry.marker

DiscoverInit ==
    /\ path \in StartArgs
    /\ dirs = Dirs(path)
    /\ fs \in WalkFileSystems(Len(dirs))
    \* the working directory is a directory
    /\ (path.type = "None" \/ ~StartPath(path).abs) =>
          fs[Len(dirs) - Len(Cwd)].kind = "dir"
    /\ i = 1
    /\ probable_path = None
    /\ first_no_init_file = None
    /\ project = None
    /\ dpc = "loop"
    /\ via = ""
    /\ SysPathIdle
    /\ SearchIdle
    /\ StoreIdle

InLoop == dpc = "loop" /\ i <= Len(dirs)
\* A variant that leaves the loop as soon as a marker directory is found.
AfterLoop_AtFirstMarker == dpc = "loop" /\ (i > Len(dirs) \/ probable_path # None)
AfterLoop == dpc = "loop" /\ i > Len(dirs)

Return(p, how) ==
    /\ project' = Some(p)
    /\ dpc' = "returned"
    /\ via' = how
    /\ UNCHANGED <<path, dirs, fs, i, probable_path, first_no_init_file, sysVars, searchVars, storeVars>>

\* Lines 412-413: Project.load(dir) succeeds and is returned.
LoadReturns ==
    /\ InLoop
    /\ Load(dirs[i], fs[i]).outcome = "return"
    /\ Return(Load(dirs[i], fs[i]).project[1], "load")

\* Line 413: Project.load(dir) raises WrongVersion, which no handler of
\* get_default_project catches.
LoadRaises ==
    /\ InLoop
    /\ Load(dirs[i], fs[i]).outcome = "WrongVersion"
    /\ dpc' = "raised"
    /\ via' = "WrongVersion"
    /\ UNCHANGED <<path, dirs, fs, i, probable_path, first_no_init_file, project, sysVars, searchVars, storeVars>>

\* Lines 416-417: NotADirectoryError, continue.
NotADirectoryContinue ==
    /\ InLoop
    /\ Load(dirs[i], fs[i]).outcome = "NotADirectoryError"
    /\ i' = i + 1
    /\ UNCHANGED <<path, dirs, fs, probable_path, first_no_init_file, project, dpc, via, sysVars, searchVars, storeVars>>

\* Lines 419-423: no directory without __init__.py was seen so far and
\* this one has it: continue.
PackageContinue ==
    /\ InLoop
    /\ LoadPasses(dirs[i], fs[i])
    /\ first_no_init_file = None
    /\ HasInit(fs[i])
    /\ i' = i + 1
    /\ UNCHANGED <<path, dirs, fs, probable_path, first_no_init_file, project, dpc, via, sysVars, searchVars, storeVars>>

\* Lines 419-424: no directory without __init__.py was seen so far and
\* exists() or is_file() raises PermissionError, which nothing catches.
ProbeRaises ==
    /\ InLoop
    /\ LoadPasses(dirs[i], fs[i])
    /\ first_no_init_file = None
    /\ StatRaises(fs[i])
    /\ dpc' = "raised"
    /\ via' = "PermissionError"
    /\ UNCHANGED <<path, dirs, fs, i, probable_path, first_no_init_file, project, sysVars, searchVars, storeVars>>

\* A variant that records the last directory of the walk.
NoInitAfter_LastWins(dir, entry) ==
    IF ~IsFile(entry) THEN Some(dir) ELSE first_no_init_file

\* A variant that never records the directory.
NoInitAfter_NeverSet(dir, entry) == first_no_init_file

\* first_no_init_file after lines 419-425, when line 423 did not continue.
NoInitAfter(dir, entry) ==
    IF first_no_init_file = None /\ ~IsFile(entry) THEN Some(dir)
    ELSE first_no_init_file

\* A variant that lets the last directory with a marker win.
ProbableAfter_LastWins(dir, entry) ==
    IF _is_potential_project(entry) THEN Some(dir) ELSE probable_path

\* probable_path after lines 432-433.
ProbableAfter(dir, entry) ==
    IF probable_path = None /\ _is_potential_project(entry) THEN Some(dir)
    ELSE probable_path

\* A variant that tests for a framework root before it tries to load.
ReachesFrameworkTest_BeforeLoad ==
    /\ dpc = "loop" /\ i <= Len(dirs)
    /\ ~(first_no_init_file = None /\ HasInit(fs[i]))

\* The directory reaches line 427.
ReachesFrameworkTest ==
    /\ InLoop
    /\ LoadPasses(dirs[i], fs[i])
    /\ ~(first_no_init_file = None /\ (HasInit(fs[i]) \/ StatRaises(fs[i])))

\* Lines 427-430: a Django directory is returned with _django set.
DjangoReturns ==
    /\ ReachesFrameworkTest
    /\ _is_django_path(fs[i])
    /\ Return([ProjectDefault(AsPathArg(dirs[i])) EXCEPT !.django = TRUE], "django")

\* Lines 419-433 without a return: the candidates are recorded and the
\* loop goes on.
RecordCandidates ==
    /\ ReachesFrameworkTest
    /\ ~_is_django_path(fs[i])
    /\ first_no_init_file' = NoInitAfter(dirs[i], fs[i])
    /\ probable_path' = ProbableAfter(dirs[i], fs[i])
    /\ i' = i + 1
    /\ UNCHANGED <<path, dirs, fs, project, dpc, via, sysVars, searchVars, storeVars>>

\* Lines 435-437.
ReturnProbablePath ==
    /\ AfterLoop
    /\ probable_path # None
    /\ Return(ProjectDefault(AsPathArg(probable_path[1])), "probable_path")

\* Lines 439-440.
ReturnFirstNoInitFile ==
    /\ AfterLoop
    /\ probable_path = None
    /\ first_no_init_file # None
    /\ Return(ProjectDefault(AsPathArg(first_no_init_file[1])), "first_no_init_file")

\* Lines 442-443: path, not check, is what the descriptor is built from.
ReturnCurdir ==
    /\ AfterLoop
    /\ probable_path = None
    /\ first_no_init_file = None
    /\ Return(ProjectDefault(AsPathArg(
                 IF fs[1].kind = "dir" THEN StartPath(path) ELSE Parent(StartPath(path)))),
              "curdir")

DiscoverNext ==
    \/ LoadReturns
    \/ LoadRaises
    \/ NotADirectoryContinue
    \/ PackageContinue
    \/ ProbeRaises
    \/ DjangoReturns
    \/ RecordCandidates
    \/ ReturnProbablePath
    \/ ReturnFirstNoInitFile
    \/ ReturnCurdir

SpecDiscover == DiscoverInit /\ [][DiscoverNext]_vars

\* ------------------------------------------------------- _search_func
\* The names that make up the search strings and the names of the
\* project's folders and files.
Names == {<<"f">>, <<"b">>}

DotPy == <<Dot, "p", "y">>
DotPyi == <<Dot, "p", "y", "i">>
InitName == <<"_", "_", "i", "n", "i", "t", "_", "_">>

\* s.startswith(t)
StartsWith(s, t) == Len(t) <= Len(s) /\ SubSeq(s, 1, Len(t)) = t

\* path.name
BaseName(p) == p.parts[Len(p.parts)]

\* name = wanted_names[0]
SearchName_Last(wanted_names) == wanted_names[Len(wanted_names)]
SearchName(wanted_names) == wanted_names[1]

\* stub_folder_name = name + '-stubs'
StubFolderName(name) == name \o <<"-", "s", "t", "u", "b", "s">>

\* The folder the walk starts at: FolderIO(str(self._path)).
SearchRoot(proj) == PathOf(StrOf(proj.path))

\* A pair of the folder walk: a folder (file_io None) with the file
\* __init__.py ("py"), only __init__.pyi ("pyi") or neither ("none") in
\* it, or a file of a folder.
FolderEntry(proj, base, init) ==
    [folder_io |-> JoinPath(SearchRoot(proj), base), file_io |-> None, init |-> init]

FileEntry(proj, fname) ==
    [folder_io |-> SearchRoot(proj),
     file_io |-> Some(JoinPath(SearchRoot(proj), fname)), init |-> "none"]

ProjectEntries(proj) ==
    {FolderEntry(proj, <<"f">>, init) : init \in {"py", "pyi", "none"}}
    \cup {FolderEntry(proj, StubFolderName(<<"f">>), "pyi"),
          FolderEntry(proj, <<"b">>, "py")}
    \cup {FileEntry(proj, n \o DotPy) : n \in Names}
    \cup {FileEntry(proj, <<"f">> \o DotPyi)}

\* The path a pair stands for.
EntryPath(e) == IF e.file_io = None THEN e.folder_io ELSE e.file_io[1]

\* file_name == name or file_name == stub_folder_name
IsCandidateFolder(e, name) ==
    BaseName(e.folder_io) = name \/ BaseName(e.folder_io) = StubFolderName(name)

\* Path(file_io.path).name in (name + '.py', name + '.pyi')
IsCandidateFile_OnlyStub(e, name) == BaseName(e.file_io[1]) = name \o DotPyi
IsCandidateFile(e, name) ==
    BaseName(e.file_io[1]) \in {name \o DotPy, name \o DotPyi}

\* The module context m of a candidate: of a folder the module of
\* __init__.py, without that file the module of __init__.pyi, without
\* that one the namespace (which has no file); of a file its module.
LoadCandidate(e) ==
    IF e.file_io # None THEN [file |-> e.file_io]
    ELSE IF e.init = "py"
         THEN [file |-> Some(JoinPath(e.folder_io, InitName \o DotPy))]
    ELSE IF e.init = "pyi"
         THEN [file |-> Some(JoinPath(e.folder_io, InitName \o DotPyi))]
    ELSE [file |-> None]

\* What the wrapper reads of a definition: _name.tree_name, type and
\* module_path.
Definitions ==
    LET file == Some([abs |-> TRUE, parts |-> << <<"p">>, <<"f">> \o DotPy>>])
    IN  {[tree_name |-> Some(1), type |-> "function", module_path |-> file],
         [tree_name |-> Some(2), type |-> "function", module_path |-> file],
         [tree_name |-> Some(1), type |-> "module", module_path |-> file],
         [tree_name |-> None, type |-> "module", module_path |-> file],
         [tree_name |-> None, type |-> "module", module_path |-> None]}

\* The match for a module itself: of kind module, at the module's file,
\* without a tree name.
ModuleMatch(m) == [tree_name |-> None, type |-> "module", module_path |-> m.file]

\* search_in_module on the module m under its own name: a search string
\* of one name matches the module itself, if no other kind is asked for;
\* a longer one goes on to the names inside the module.
PhaseOneCall(m, q) ==
    IF Len(q.wanted_names) > 1 THEN [kind |-> "names", yields |-> <<>>]
    ELSE IF q.wanted_type \in {"", "module"}
         THEN [kind |-> "module", yields |-> <<ModuleMatch(m)>>]
    ELSE [kind |-> "module", yields |-> <<>>]

\* The block of _search_func that follows a block; 4 is the end.
PhaseAfter_ScanSkipped(ph) == IF ph = 1 THEN 3 ELSE 4
PhaseAfter_SysPathFirst(ph) == IF ph = 1 THEN 3 ELSE IF ph = 3 THEN 2 ELSE 4
PhaseAfter(ph) == ph + 1

\* The sys path of the third block: the entries of _get_sys_path that do
\* not start with the project path.
SearchSysPath(proj, state) ==
    SelectSeq(_get_sys_path(proj, state, TRUE, FALSE),
              LAMBDA p : ~StartsWith(p, StrOf(proj.path)))

\* A call of a collaborator, as logged.
SearchInModuleCall(ph, subject, q, convert) ==
    [fn |-> "search_in_module", phase |-> ph, subject |-> subject,
     wanted_type |-> q.wanted_type, wanted_names |-> q.wanted_names,
     complete |-> q.complete, convert |-> convert, ignore_imports |-> ph # 3,
     token |-> None, sys_path |-> None]

SearchInFileIosCall(q) ==
    [fn |-> "search_in_file_ios", phase |-> 2, subject |-> None,
     wanted_type |-> "", wanted_names |-> <<>>,
     complete |-> q.complete, convert |-> FALSE, ignore_imports |-> FALSE,
     token |-> Some(SearchName(q.wanted_names)), sys_path |-> None]

IterModuleNamesCall(sys_path) ==
    [fn |-> "iter_module_names", phase |-> 3, subject |-> None,
     wanted_type |-> "", wanted_names |-> <<>>,
     complete |-> FALSE, convert |-> FALSE, ignore_imports |-> FALSE,
     token |-> None, sys_path |-> Some(sys_path)]

\* The iterator of the loop of a block is exhausted, as logged.
Exhausted(ph) ==
    [fn |-> "StopIteration", phase |-> ph, subject |-> None,
     wanted_type |-> "", wanted_names |-> <<>>,
     complete |-> FALSE, convert |-> FALSE, ignore_imports |-> FALSE,
     token |-> None, sys_path |-> None]

\* The wrapper's test of a definition against what it has yielded.
Duplicate_NodesOnly(d, nodes, modules) ==
    d.tree_name # None /\ d.tree_name \in Range(nodes)
Duplicate(d, nodes, modules) ==
    \/ d.tree_name # None /\ d.tree_name \in Range(nodes)
    \/ /\ d.type = "module"
       /\ d.module_path # None
       /\ d.module_path \in Range(modules)

\* found_modules after a definition is yielded.
ModulesAfter(d, modules) ==
    IF d.type = "module" /\ d.module_path # None
    THEN Append(modules, d.module_path) ELSE modules

\* The search strings, split: wanted_type and the chain of names.
Queries ==
    [wanted_type : {"", "function"},
     wanted_names : {c \in SeqsUpTo(Names, MaxChain) :
                        c # <<>> /\ \A j, k \in 1..Len(c) : c[j] = c[k] => j = k},
     complete : BOOLEAN]

\* The projects searched, and the state of Script('', project=self).
SearchDescriptors ==
    {ProjectNew(AsStrArg(<<Slash, "p">>), None, FALSE,
                Some(<< <<Slash, "p", Slash, "a">>, <<Slash, "p", "q">>, <<Slash, "q">> >>), <<>>, TRUE)}

SearchStates(proj) ==
    {st \in States(proj) : st.script_path = None /\ st.buildout = <<>> /\ st.inits = {}}

SearchInit ==
    /\ DiscoverIdle
    /\ StoreIdle
    /\ self \in SearchDescriptors
    /\ inference_state \in SearchStates(self)
    /\ add_parent_paths = TRUE
    /\ add_init_paths = FALSE
    /\ sys_path_result = None
    /\ query \in Queries
    /\ ios = <<>>
    /\ file_ios = <<>>
    /\ phase = 1
    /\ in_call = "no"
    /\ scan_pos = 0
    /\ pending = <<>>
    /\ raw = <<>>
    /\ out = <<>>
    /\ found_tree_nodes = <<>>
    /\ found_modules = <<>>
    /\ calls = <<>>

\* The pairs the folder walk can yield next: a folder or file once.
NextEntries ==
    IF Len(ios) >= MaxEntries THEN {}
    ELSE {e \in ProjectEntries(self) : \A k \in 1..Len(ios) : EntryPath(ios[k]) # EntryPath(e)}

InLoopOne == phase = 1 /\ in_call = "no"

\* The loop body for a folder of another name: continue.
FolderSkipped ==
    /\ InLoopOne
    /\ \E e \in NextEntries :
         /\ e.file_io = None
         /\ ~IsCandidateFolder(e, SearchName(query.wanted_names))
         /\ ios' = Append(ios, e)
    /\ UNCHANGED <<query, file_ios, phase, in_call, scan_pos, pending, raw, out,
                   found_tree_nodes, found_modules, calls, discVars, sysVars, storeVars>>

\* The loop body for a folder of the name or the stub folder name: its
\* module is loaded and searched.
FolderLoaded ==
    /\ InLoopOne
    /\ \E e \in NextEntries :
         /\ e.file_io = None
         /\ IsCandidateFolder(e, SearchName(query.wanted_names))
         /\ ios' = Append(ios, e)
         /\ calls' = Append(calls, SearchInModuleCall(1, Some(EntryPath(e)), query, TRUE))
         /\ in_call' = PhaseOneCall(LoadCandidate(e), query).kind
         /\ pending' = PhaseOneCall(LoadCandidate(e), query).yields
    /\ UNCHANGED <<query, file_ios, phase, scan_pos, raw, out,
                   found_tree_nodes, found_modules, discVars, sysVars, storeVars>>

\* The loop body for a file of another name: it is kept for the second
\* block.
FileRecorded ==
    /\ InLoopOne
    /\ \E e \in NextEntries :
         /\ e.file_io # None
         /\ ~IsCandidateFile(e, SearchName(query.wanted_names))
         /\ ios' = Append(ios, e)
         /\ file_ios' = Append(file_ios, e.file_io[1])
    /\ UNCHANGED <<query, phase, in_call, scan_pos, pending, raw, out,
                   found_tree_nodes, found_modules, calls, discVars, sysVars, storeVars>>

\* The loop body for a file name.py or name.pyi: it is kept, loaded and
\* searched.
FileLoaded ==
    /\ InLoopOne
    /\ \E e \in NextEntries :
         /\ e.file_io # None
         /\ IsCandidateFile(e, SearchName(query.wanted_names))
         /\ ios' = Append(ios, e)
         /\ file_ios' = Append(file_ios, e.file_io[1])
         /\ calls' = Append(calls, SearchInModuleCall(1, Some(EntryPath(e)), query, TRUE))
         /\ in_call' = PhaseOneCall(LoadCandidate(e), query).kind
         /\ pending' = PhaseOneCall(LoadCandidate(e), query).yields
    /\ UNCHANGED <<query, phase, scan_pos, raw, out,
                   found_tree_nodes, found_modules, discVars, sysVars, storeVars>>

\* The folder walk is exhausted: the first block ends.
WalkerExhausted ==
    /\ InLoopOne
    /\ phase' = PhaseAfter(1)
    /\ calls' = Append(calls, Exhausted(1))
    /\ UNCHANGED <<query, ios, file_ios, in_call, scan_pos, pending, raw, out,
                   found_tree_nodes, found_modules, discVars, sysVars, storeVars>>

\* The log once search_in_file_ios has been called.
WithScanner(log) ==
    IF \E k \in 1..Len(log) : log[k].fn = "search_in_file_ios" THEN log
    ELSE Append(log, SearchInFileIosCall(query))

\* The content scanner yields the module context of a later file of
\* file_ios, and the module is searched.
ModuleContextSearched ==
    /\ phase = 2
    /\ in_call = "no"
    /\ \E k \in (scan_pos + 1)..Len(file_ios) :
         /\ scan_pos' = k
         /\ calls' = Append(WithScanner(calls),
                            SearchInModuleCall(2, Some(file_ios[k]), query, FALSE))
    /\ in_call' = "names"
    /\ UNCHANGED <<query, ios, file_ios, phase, pending, raw, out,
                   found_tree_nodes, found_modules, discVars, sysVars, storeVars>>

\* The content scanner is exhausted: the second block ends.
ScannerExhausted ==
    /\ phase = 2
    /\ in_call = "no"
    /\ calls' = Append(WithScanner(calls), Exhausted(2))
    /\ phase' = PhaseAfter(2)
    /\ UNCHANGED <<query, ios, file_ios, in_call, scan_pos, pending, raw, out,
                   found_tree_nodes, found_modules, discVars, sysVars, storeVars>>

\* The third block: the sys path without the project's own entries is
\* listed for module names, and these are searched.
SysPathSearched ==
    /\ phase = 3
    /\ in_call = "no"
    /\ sys_path_result = None
    /\ sys_path_result' = Some(_get_sys_path(self, inference_state, TRUE, FALSE))
    /\ calls' = calls \o <<IterModuleNamesCall(SearchSysPath(self, inference_state)),
                            SearchInModuleCall(3, None, query, TRUE)>>
    /\ in_call' = "names"
    /\ UNCHANGED <<query, ios, file_ios, phase, scan_pos, pending, raw, out,
                   found_tree_nodes, found_modules, discVars,
                   self, inference_state, add_parent_paths, add_init_paths, storeVars>>

\* What the running search_in_module call can yield next: a search has
\* MaxRaw definitions at most.
NextDefinitions ==
    IF in_call = "module" THEN {pending[k] : k \in {1} \cap DOMAIN pending}
    ELSE IF in_call = "names" /\ Len(raw) < MaxRaw THEN Definitions
    ELSE {}

\* The wrapper takes the next definition and yields it.
DefinitionYielded ==
    /\ \E d \in NextDefinitions :
           /\ ~Duplicate(d, found_tree_nodes, found_modules)
           /\ found_modules' = ModulesAfter(d, found_modules)
           /\ found_tree_nodes' = Append(found_tree_nodes, d.tree_name)
           /\ out' = Append(out, [d |-> d, phase |-> phase])
           /\ raw' = Append(raw, [d |-> d, phase |-> phase, yielded |-> TRUE])
    /\ pending' = IF pending = <<>> THEN pending ELSE Tail(pending)
    /\ UNCHANGED <<query, ios, file_ios, phase, in_call, scan_pos, calls,
                   discVars, sysVars, storeVars>>

\* The wrapper takes the next definition and goes on without it.
DuplicateSkipped ==
    /\ \E d \in NextDefinitions :
           /\ Duplicate(d, found_tree_nodes, found_modules)
           /\ raw' = Append(raw, [d |-> d, phase |-> phase, yielded |-> FALSE])
    /\ pending' = IF pending = <<>> THEN pending ELSE Tail(pending)
    /\ UNCHANGED <<query, ios, file_ios, phase, in_call, scan_pos, out,
                   found_tree_nodes, found_modules, calls, discVars, sysVars, storeVars>>

\* search_in_module is exhausted: the block goes on, the third one ends.
CallReturns ==
    /\ in_call # "no"
    /\ pending = <<>>
    /\ in_call' = "no"
    /\ phase' = IF phase = 3 THEN PhaseAfter(3) ELSE phase
    /\ UNCHANGED <<query, ios, file_ios, scan_pos, pending, raw, out,
                   found_tree_nodes, found_modules, calls, discVars, sysVars, storeVars>>

SearchNext ==
    \/ FolderSkipped
    \/ FolderLoaded
    \/ FileRecorded
    \/ FileLoaded
    \/ WalkerExhausted
    \/ ModuleContextSearched
    \/ ScannerExhausted
    \/ SysPathSearched
    \/ DefinitionYielded
    \/ DuplicateSkipped
    \/ CallReturns

SpecSearch == SearchInit /\ [][SearchNext]_vars

\* ------------------------------------------- claims on root discovery
Walk == 1..Len(dirs)
Below(k) == 1..(k - 1)
UpTo(k) == 1..k

\* What a directory of the walk holds, read off the file system.
Loadable(k) == fs[k].kind = "dir" /\ fs[k].config = "v1"
HasConfigEntry(k) == fs[k].config # "none"
FrameworkRoot(k) == fs[k].kind = "dir" /\ fs[k].django
PackageMarker(k) == fs[k].kind = "dir" /\ fs[k].init
GenericMarker(k) == fs[k].kind = "dir" /\ fs[k].marker
\* A path that is not a regular file nor under one, without a config
\* entry and without a package marker file.
PlainNonPackage(k) ==
    fs[k].kind \in {"dir", "absent"} /\ ~HasConfigEntry(k) /\ ~PackageMarker(k)
\* Not skipped as the interior of a package: without a package marker
\* file, or above a plain non-package path.
NotPackageInterior(k) ==
    ~PackageMarker(k) \/ \E j \in Below(k) : PlainNonPackage(j)

\* Every path of the walk lies in folders that may be searched.
NoAccessDenied == \A k \in Walk : fs[k].kind # "denied"

Returned == dpc = "returned"
Ended == dpc # "loop"
Result == project[1]

\* C3 as stated: if any directory of the walk has a loadable saved
\* config, discover returns a descriptor loaded from a saved config and
\* never a framework-flagged one, at whatever depths the two sit (a call
\* that raises is not held against the claim).
C3_SavedAlwaysWins ==
    (Returned /\ \E k \in Walk : Loadable(k)) =>
        (via = "load" /\ ~Result.django)

\* C3 amended: if a directory d of the walk has a loadable saved config
\* and no directory strictly below d is a framework root, then whenever
\* discover returns, it returns the descriptor loaded from the loadable
\* saved config nearest to the start path and not a framework-flagged
\* one; a framework root at d or above does not outrank it.
C3_SavedWinsFromItsDepthUp ==
    \A k \in Walk :
        (Loadable(k) /\ \A j \in Below(k) : ~FrameworkRoot(j)) =>
            (Returned =>
                /\ via = "load"
                /\ ~Result.django
                /\ \E n \in UpTo(k) :
                      /\ Loadable(n)
                      /\ \A m \in Below(n) : ~Loadable(m)
                      /\ Result.path = dirs[n])

\* C3 witness: a saved descriptor is returned from a directory that is
\* itself a framework root, or that lies below one.
C3_Witness ==
    /\ Returned /\ via = "load"
    /\ i > 1
    /\ FrameworkRoot(i)
    /\ \E k \in (i + 1)..Len(dirs) : FrameworkRoot(k)

\* C6 as stated: every descriptor discover returns has an absolute root
\* path, whatever the start path.
C6_RootPathAbsolute == Returned => Result.path.abs

TestedMarker(k) ==
    GenericMarker(k) /\ ~HasConfigEntry(k) /\ NotPackageInterior(k)

SavedAndNoFramework ==
    /\ NoAccessDenied
    /\ \A k \in Walk : ~FrameworkRoot(k)
    /\ \E k \in Walk : Loadable(k)

\* The directory with a loadable saved config nearest to the start path.
NearestLoadable == CHOOSE n \in Walk : Loadable(n) /\ \A m \in Below(n) : ~Loadable(m)

\* A directory nearer to the start path has a saved config of another
\* version.
OtherVersionBelow(n) ==
    \E m \in Below(n) : Load(dirs[m], fs[m]).outcome = "WrongVersion"

NoSignal ==
    \A k \in Walk : ~HasConfigEntry(k) /\ ~FrameworkRoot(k) /\ ~GenericMarker(k)

\* The start path and its ancestors below the n-th directory of the walk
\* have a package marker file each, and the n-th is a directory without.
PackageChainUpTo(n) ==
    /\ n >= 2
    /\ \A k \in Below(n) : PackageMarker(k)
    /\ fs[n].kind = "dir"
    /\ ~PackageMarker(n)

\* Every directory of the walk has a package marker file, the start path
\* being one of them or a file.
PackagesAllTheWay ==
    /\ PackageMarker(1) \/ fs[1].kind = "file"
    /\ \A k \in Walk : k >= 2 => PackageMarker(k)

\* C16: without a saved config, a framework root and a generic marker on
\* the walk, discover returns the first ancestor without a package marker
\* file above a start path and ancestors that have one each; if every
\* directory of the walk has one, it returns the start path, or the
\* parent of a start path that is a file.
C16_PackageInteriorSkipped ==
    NoSignal =>
        /\ \A n \in Walk :
              PackageChainUpTo(n) =>
                  (Ended => /\ Returned /\ via = "first_no_init_file"
                            /\ Result.path = dirs[n] /\ ~Result.django)
        /\ PackagesAllTheWay =>
              (Ended => /\ Returned /\ via = "curdir"
                        /\ ~Result.django
                        /\ Result.path = IF fs[1].kind = "dir" THEN StartPath(path)
                                         ELSE Parent(StartPath(path)))

\* C16 witness: the directory returned is above the package of the start
\* path and below another directory without a package marker file.
C16_Witness ==
    /\ NoSignal
    /\ Returned /\ via = "first_no_init_file"
    /\ \E n \in Walk :
          /\ PackageChainUpTo(n)
          /\ Result.path = dirs[n]
          /\ \E m \in (n + 1)..Len(dirs) : fs[m].kind = "dir" /\ ~PackageMarker(m)

\* C19 as stated: a PermissionError or NotADirectoryError of a probe of
\* a directory of the walk does not leave discover, which goes on and
\* returns a descriptor (a saved config of another version apart).
C19_FaultsNeverEscape ==
    (\A k \in Walk : Load(dirs[k], fs[k]).outcome # "WrongVersion") =>
        (Ended => Returned /\ project # None)

\* -------------------------------------------- claims on the sys path
Synthesized == sys_path_result # None
SysPath == sys_path_result[1]
TheConcatenation ==
    Concatenation(self, inference_state, add_parent_paths, add_init_paths)

\* The position of the first x in q.
FirstIndex(q, x) == CHOOSE k \in 1..Len(q) : q[k] = x /\ \A j \in 1..(k - 1) : q[j] # x

\* The ancestors the walk collects, the nearest to the script first.
Collected ==
    IF self.smart_sys_path /\ inference_state.script_path # None /\ add_parent_paths
    THEN Traversed(self, inference_state, add_init_paths)
    ELSE <<>>

\* What the concatenation holds before the ancestors.
BeforeAncestors ==
    Prefixed(self) \o BaseList(self, inference_state) \o self.added_sys_path
    \o (IF self.smart_sys_path /\ inference_state.script_path # None
        THEN inference_state.buildout ELSE <<>>)

\* C4 as stated: of any two collected ancestors of the script path, the
\* one nearer to the script comes before the one nearer to the root.
C4_DeepestFirst ==
    Synthesized =>
        \A a, b \in 1..Len(Collected) :
            a < b => FirstIndex(SysPath, Collected[a]) < FirstIndex(SysPath, Collected[b])

\* C4 amended: of any two collected ancestors of the script path that occur
\* nowhere else in the concatenation (not as the root, in the base list, in
\* the extra trailing paths or among the build-layout paths), the one
\* nearer to the root comes before the one nearer to the script.
C4_ShallowestFirst ==
    Synthesized =>
        \A a, b \in 1..Len(Collected) :
            (a < b /\ Collected[a] \notin Range(BeforeAncestors)
                   /\ Collected[b] \notin Range(BeforeAncestors)) =>
                FirstIndex(SysPath, Collected[b]) < FirstIndex(SysPath, Collected[a])

\* C4 witness: two ancestors were collected and both are new to the list.
C4_Witness ==
    /\ Synthesized
    /\ Len(Collected) >= 2
    /\ \A a \in 1..Len(Collected) : Collected[a] \notin Range(BeforeAncestors)
    /\ BaseList(self, inference_state) # <<>>

\* C7: the synthesized sys path holds each path of prefix + base + suffix
\* exactly once, in the order of the first occurrences.
C7_FirstOccurrenceOrder ==
    Synthesized =>
        /\ Range(SysPath) = Range(TheConcatenation)
        /\ \A a, b \in 1..Len(SysPath) : SysPath[a] = SysPath[b] => a = b
        /\ \A a, b \in 1..Len(SysPath) :
              a < b => FirstIndex(TheConcatenation, SysPath[a])
                         < FirstIndex(TheConcatenation, SysPath[b])

\* C7 witness: a path that occurs twice in the concatenation, with another
\* path in between, was removed.
C7_Witness ==
    /\ Synthesized
    /\ \E a, b, c \in 1..Len(TheConcatenation) :
          /\ a < b /\ b < c
          /\ TheConcatenation[a] = TheConcatenation[c]
          /\ TheConcatenation[a] # TheConcatenation[b]
    /\ Len(SysPath) < Len(TheConcatenation)

\* The entries of the synthesized sys path that only the ancestor walk
\* has put there.
AncestorDerived == Range(SysPath) \ Range(BeforeAncestors)

\* A proper ancestor of the script path, strictly below the root path,
\* and without a package marker file unless add_init_paths is set.
WithinBound(e) ==
    /\ inference_state.script_path # None
    /\ PathOf(e) \in Range(Parents(inference_state.script_path[1]))
    /\ self.path \in Range(Parents(PathOf(e)))
    /\ PathOf(e) # self.path
    /\ ~add_init_paths => PathOf(e) \notin inference_state.inits

\* The script path is not below the root path, or is right in it.
OutsideOrDirectlyInRoot ==
    /\ inference_state.script_path # None
    /\ \/ self.path \notin Range(Parents(inference_state.script_path[1]))
       \/ Parent(inference_state.script_path[1]) = self.path

\* C17: every entry the ancestor walk adds to the synthesized sys path is
\* a proper ancestor of the script path strictly below the root path, and
\* has no package marker file unless add_init_paths is set; with
\* smart_sys_path and a script path outside the root path's subtree or
\* right in the root path, the walk adds nothing.
C17_AncestorsWithinBound ==
    Synthesized =>
        /\ \A e \in AncestorDerived : WithinBound(e)
        /\ \A k \in 1..Len(Collected) :
              WithinBound(Collected[k]) /\ Collected[k] \in Range(SysPath)
        /\ self.smart_sys_path /\ OutsideOrDirectlyInRoot =>
              Collected = <<>> /\ AncestorDerived = {}

\* C17 witness: the walk added an ancestor and passed over a nearer one
\* for its package marker file.
C17_Witness ==
    /\ Synthesized
    /\ ~add_init_paths
    /\ AncestorDerived # {}
    /\ \E e \in AncestorDerived :
          \E f \in inference_state.inits : PathOf(e) \in Range(Parents(f))

\* The base list followed by added_sys_path.
BaseThenAdded == BaseList(self, inference_state) \o self.added_sys_path

\* C18: without smart_sys_path the synthesized sys path is the base list
\* followed by added_sys_path, each path once at its first place: the
\* root path is not put first and no path of the build layout or of the
\* ancestor walk is added, whatever the script path is.
C18_PlainWithoutSmart ==
    Synthesized /\ ~self.smart_sys_path =>
        /\ Range(SysPath) = Range(BaseThenAdded)
        /\ \A a, b \in 1..Len(SysPath) : SysPath[a] = SysPath[b] => a = b
        /\ \A a, b \in 1..Len(SysPath) :
              a < b => FirstIndex(BaseThenAdded, SysPath[a])
                         < FirstIndex(BaseThenAdded, SysPath[b])

\* C18 witness: without smart_sys_path, a script two folders below the
\* root path with a build layout path, and neither the root path nor the
\* script's folders are in the result.
C18_Witness ==
    /\ Synthesized
    /\ ~self.smart_sys_path
    /\ inference_state.script_path # None
    /\ inference_state.buildout # <<>>
    /\ Len(inference_state.script_path[1].parts) >= 3
    /\ self.path \in Range(Parents(inference_state.script_path[1]))
    /\ StrOf(self.path) \notin Range(SysPath)
    /\ inference_state.buildout[1] \notin Range(SysPath)
    /\ SysPath # <<>>

\* ------------------------------------------------ claims on the search
Yields == 1..Len(out)
Raws == 1..Len(raw)

\* The definitions of the stream, without the block they came from.
OutDefinitions == [k \in Yields |-> out[k].d]

SameTree(d, e) == d.tree_name # None /\ d.tree_name = e.tree_name

SameModuleFile(d, e) ==
    /\ d.type = "module"
    /\ e.type = "module"
    /\ d.module_path # None
    /\ d.module_path = e.module_path

\* The definition raw[k] was yielded by _search_func and not by the
\* wrapper, for the reason given.
DroppedFor(k, Same(_, _)) ==
    /\ ~raw[k].yielded
    /\ \E j \in 1..(k - 1) : raw[j].yielded /\ Same(raw[j].d, raw[k].d)

Survivors == SelectSeq(raw, LAMBDA r : r.yielded)

\* C1: in the stream of one search no two definitions have the same tree
\* name (None apart), no two definitions of type module have the same
\* module path (None apart), a definition is left out only if an earlier
\* definition of the stream has its tree name or, both being modules, its
\* module path, and the stream is what _search_func yielded without the
\* definitions left out, in the same order.
C1_NoDuplicatesNoLoss ==
    /\ \A a, b \in Yields : SameTree(out[a].d, out[b].d) => a = b
    /\ \A a, b \in Yields : SameModuleFile(out[a].d, out[b].d) => a = b
    /\ \A k \in Raws :
          ~raw[k].yielded => DroppedFor(k, SameTree) \/ DroppedFor(k, SameModuleFile)
    /\ OutDefinitions = [k \in 1..Len(Survivors) |-> Survivors[k].d]

\* A finished search that left out one definition for its tree name only
\* and one for its module path only.
C1_Witness ==
    /\ phase = 4
    /\ \E k \in Raws : DroppedFor(k, SameTree) /\ ~DroppedFor(k, SameModuleFile)
    /\ \E k \in Raws : DroppedFor(k, SameModuleFile) /\ ~DroppedFor(k, SameTree)
    /\ out # <<>>

\* C2: in the stream of one search, exact or completing, what the folder
\* walk block yielded comes before what the content scan block yielded,
\* and that before what the sys path block yielded.
C2_PhasesInOrder ==
    /\ \A a, b \in Yields : a < b => out[a].phase <= out[b].phase
    /\ \A a, b \in Raws : a < b => raw[a].phase <= raw[b].phase

\* A finished completing search with a definition of each block.
C2_Witness ==
    /\ phase = 4
    /\ query.complete
    /\ \A ph \in 1..3 : \E k \in Yields : out[k].phase = ph

FirstSegment == query.wanted_names[1]
LastSegment == query.wanted_names[Len(query.wanted_names)]

\* The pair is a folder called name or name-stubs, or a file called
\* name.py or name.pyi.
NamedAfter(e, name) ==
    IF e.file_io = None
    THEN BaseName(e.folder_io) \in {name, StubFolderName(name)}
    ELSE BaseName(e.file_io[1]) \in {name \o DotPy, name \o DotPyi}

\* The module of the pair was searched in the first block.
Loaded(e) ==
    \E k \in 1..Len(calls) :
        /\ calls[k].fn = "search_in_module"
        /\ calls[k].phase = 1
        /\ calls[k].subject = Some(EntryPath(e))

\* The candidates of the first block and the token of the content scan
\* are those of the name.
PickedBy(name) ==
    /\ \A k \in 1..Len(ios) : Loaded(ios[k]) <=> NamedAfter(ios[k], name)
    /\ \A k \in 1..Len(calls) :
          calls[k].fn = "search_in_file_ios" => calls[k].token = Some(name)

FullChainPassed ==
    \A k \in 1..Len(calls) :
        calls[k].fn = "search_in_module" =>
            /\ calls[k].wanted_names = query.wanted_names
            /\ calls[k].wanted_type = query.wanted_type

\* C5 as stated: with a chain of two names or more, the candidates of the
\* first block and the token of the content scan are those of the last
\* name, and every search_in_module call is given the whole chain.
C5_LastSegmentPicks ==
    Len(query.wanted_names) >= 2 => PickedBy(LastSegment) /\ FullChainPassed

\* C5: with a chain of two names or more, the candidates of the first
\* block and the token of the content scan are those of the first name,
\* and every search_in_module call is given the whole chain.
C5_FirstSegmentPicks ==
    Len(query.wanted_names) >= 2 => PickedBy(FirstSegment) /\ FullChainPassed

\* A finished search for a chain of two names that loaded a candidate,
\* passed by a file or folder of the last name and called the content
\* scan and the search of each block.
C5_Witness ==
    /\ phase = 4
    /\ Len(query.wanted_names) >= 2
    /\ \E k \in 1..Len(ios) : Loaded(ios[k])
    /\ \E k \in 1..Len(ios) : NamedAfter(ios[k], LastSegment) /\ ~Loaded(ios[k])
    /\ \E k \in 1..Len(calls) : calls[k].fn = "search_in_file_ios"
    /\ \A ph \in 1..3 :
          \E k \in 1..Len(calls) :
              calls[k].fn = "search_in_module" /\ calls[k].phase = ph

\* search("f") in a project whose root folder has both the file f.py and
\* the folder f with a file __init__.py, once the first block is over.
FileAndPackage ==
    /\ query = [wanted_type |-> "", wanted_names |-> << <<"f">> >>, complete |-> FALSE]
    /\ \E k \in 1..Len(ios) : ios[k] = FileEntry(self, <<"f">> \o DotPy)
    /\ \E k \in 1..Len(ios) : ios[k] = FolderEntry(self, <<"f">>, "py")
    /\ phase > 1

\* The definitions of type module that the first block put in the stream.
ModulesOfBlockOne ==
    SelectSeq(out, LAMBDA y : y.phase = 1 /\ y.d.type = "module")

AtOrBelow(p, root) ==
    /\ p.abs = root.abs
    /\ Len(root.parts) <= Len(p.parts)
    /\ SubSeq(p.parts, 1, Len(root.parts)) = root.parts

\* The sys path handed to iter_module_names, once the third block ran.
ScannedSysPath ==
    LET k == CHOOSE k \in 1..Len(calls) : calls[k].fn = "iter_module_names"
    IN  calls[k].sys_path[1]

\* C11 as stated: the third block lists the modules of exactly those
\* entries of the synthesized sys path that are neither the root path nor
\* below it; a sibling folder whose name starts with the root's name is
\* listed.
C11_ScansExactlyOutsideRoot ==
    sys_path_result # None /\ phase >= 3 =>
        \A k \in 1..Len(sys_path_result[1]) :
            LET p == sys_path_result[1][k]
            IN  p \in Range(ScannedSysPath) <=> ~AtOrBelow(PathOf(p), self.path)

\* No path occurs twice in the concatenation.
AllDistinct ==
    \A a, b \in 1..Len(TheConcatenation) :
        TheConcatenation[a] = TheConcatenation[b] => a = b

\* C12 as stated: when the contributed paths are all distinct, the paths
\* of added_sys_path are the tail of the synthesized sys path, in their
\* order, with smart_sys_path or without.
C12_AddedPathsAreTail ==
    Synthesized /\ AllDistinct =>
        /\ Len(self.added_sys_path) <= Len(SysPath)
        /\ SubSeq(SysPath, Len(SysPath) - Len(self.added_sys_path) + 1, Len(SysPath))
              = self.added_sys_path

\* The places of the log with an entry of the function and block.
Logged(fn, ph) == {k \in 1..Len(calls) : calls[k].fn = fn /\ calls[k].phase = ph}

\* Every logged entry of the one kind comes after an entry of the other.
ComesAfter(later, earlier) == \A k \in later : \E j \in earlier : j < k

\* C13: whenever the consumer stops, nothing of a later block has been
\* done: search_in_file_ios and the searches of the second block come
\* after the folder walk is exhausted, and _get_sys_path,
\* iter_module_names and the search of the third block come after the
\* content scan is exhausted.
C13_LaterBlocksWait ==
    /\ ComesAfter(Logged("search_in_file_ios", 2), Logged("StopIteration", 1))
    /\ ComesAfter(Logged("search_in_module", 2), Logged("StopIteration", 1))
    /\ ComesAfter(Logged("iter_module_names", 3), Logged("StopIteration", 2))
    /\ ComesAfter(Logged("search_in_module", 3), Logged("StopIteration", 2))
    /\ sys_path_result # None => Logged("StopIteration", 2) # {}
    /\ phase = 1 => scan_pos = 0 /\ Logged("search_in_file_ios", 2) = {}
    /\ phase <= 2 => sys_path_result = None /\ Logged("iter_module_names", 3) = {}

\* The consumer has a definition of the first block, the folder walk has
\* files for the content scan and is not exhausted, and neither the
\* content scan nor the sys path has been asked for.
C13_Witness ==
    /\ phase = 1
    /\ out # <<>>
    /\ file_ios # <<>>
    /\ Logged("search_in_file_ios", 2) = {}
    /\ sys_path_result = None

\* ------------------------------------------- claims on save and load
\* project.json at the root of the descriptor holds what save writes
\* for it, and load was called after that.
SavedThenLoaded ==
    /\ loaded # None
    /\ stored = Some([path |-> Opened(_get_json_path(self.path)),
                      content |-> SavedRecord(self)])

\* C14 as stated: save and then load at the same root returns a
\* descriptor with the path, the environment path, the sys path, the
\* added sys path and the two flags of the saved one, with no environment
\* and with the framework flag unset.
C14_RoundTrip ==
    SavedThenLoaded =>
        /\ loaded.outcome = "return"
        /\ loaded.project # None
        /\ LET back == loaded.project[1]
           IN  /\ back.path = self.path
               /\ back.environment_path = self.environment_path
               /\ back.sys_path = self.sys_path
               /\ back.added_sys_path = self.added_sys_path
               /\ back.smart_sys_path = self.smart_sys_path
               /\ back.load_unsafe_extensions = self.load_unsafe_extensions
               /\ back.environment = None
               /\ back.django = FALSE

\* load was called and found a record.
LoadedRecord == loaded # None /\ stored # None

\* C20: load returns a descriptor only for a record of version 1; for a
\* record of another version it raises WrongVersion and builds no
\* descriptor; the record save writes has the version 1.
C20_OnlyVersionOne ==
    /\ LoadedRecord /\ stored[1].content.version = 1 =>
          loaded.outcome = "return" /\ loaded.project # None
    /\ LoadedRecord /\ stored[1].content.version # 1 =>
          loaded.outcome = "WrongVersion" /\ loaded.project = None
    /\ loaded # None /\ stored = None => loaded.outcome = "FileNotFoundError"
    /\ SavedRecord(self).version = 1

\* load found a record of version 2 and raised WrongVersion.
C20_Witness ==
    /\ LoadedRecord
    /\ stored[1].content.version = 2
    /\ loaded.outcome = "WrongVersion"

====